---- MODULE Spec2Model ----
(***************************************************************************)
(* Per-tenant admission control and the job store of the crawl service     *)
(* (learning_agent/redis_jobs.py), the request handler smart_crawl_url and *)
(* the background runner _execute_crawl_job (learning_agent/               *)
(* crawl4ai_mcp.py).                                                       *)
(*                                                                         *)
(* The shared store is the record `redis`.  Every Redis command is one     *)
(* operator on that record; the handlers are built from these commands.    *)
(* Spec interleaves the handlers command by command (every `await` is a    *)
(* point where another request, another runner or the passing of time can  *)
(* act).  SpecCalls and SpecStore make one whole call at a time while the  *)
(* hours pass.                                                             *)
(*                                                                         *)
(* Time is counted in hours: the expiry 3600 * n seconds is n.             *)
(***************************************************************************)
EXTENDS Integers, FiniteSets, Sequences, TLC

\* ---------------------------------------------------------------- bounds
\* Spec serves the requests 1..NumReqs; the job id of request r is r.
NumReqs == 3
\* SpecCalls and SpecStore hand out the job ids 1..NumJobs.
NumJobs == 2
\* The clock stops at MaxTime hours.
MaxTime == 2
\* The site that is crawled has the pages 1..NumPages.
NumPages == 3
\* max_depth is given a value in 0..MaxDepth.
MaxDepth == 3

\* ------------------------------------------------------ program constants
\* The limits and the retention are read from the environment (defaults 5,
\* 20 and 24); the model runs the configuration below.
MAX_CONCURRENT_CRAWLS_PER_TENANT == 2
MAX_CRAWLS_PER_HOUR_PER_TENANT == 2
JOB_EXPIRY_HOURS == 2
\* r.expire(active_key, 3600 * 2) and r.expire(hourly_key, 3600), in hours.
ACTIVE_EXPIRY_HOURS == 2
HOURLY_EXPIRY_HOURS == 1

JobIds == 1..NumReqs
CallIds == 1..NumJobs
Tenants == {"T", "U"}

\* Python's None (and a missing key); Some(x) is a value that is present.
Nil == <<>>
Some(x) == <<x>>
\* A key that carries no expiry (TTL answers -1 for it).
NoExpiry == -1

Statuses == {"queued", "running", "completed", "failed"}
TerminalStatuses == {"completed", "failed"}

VARIABLES
    redis,          \* the shared store
    now,            \* the clock, in hours
    pc,             \* per request: position of its handler, then of its runner
    tenant,         \* per request: the tenant_id it was made for
    active_count,   \* per request: check_rate_limit's local active_count
    rate_check,     \* per request: the result of check_rate_limit
    call,           \* per request: the update_job call its runner is inside
    job,            \* per request: update_job's local copy of the record
    admitted,       \* per tenant: INCRs on the hourly key since it was created
    releases,       \* per job: SREMs issued for it
    added_at,       \* per job: the hour of its SADD
    world,          \* the site: its links, the pages that answer, its sitemap
    crawl,          \* the locals of the crawl function that is running
    fetch_log,      \* the batches of URLs handed to the crawler, in order
    run             \* the arguments and locals of the runner that crawls

store_vars == <<redis, now, pc, tenant, active_count, rate_check, call, job,
                admitted, releases, added_at>>
crawl_vars == <<world, crawl, fetch_log, run>>
vars == <<redis, now, pc, tenant, active_count, rate_check, call, job,
          admitted, releases, added_at, world, crawl, fetch_log, run>>

\* ------------------------------------------------------------- URLs
\* A URL is the text after scheme and host, in three parts, each a sequence
\* of pieces of text: the path, the query and the fragment.
Url(path, query, fragment) ==
    [path |-> path, query |-> query, fragment |-> fragment]
\* The URL as one string.
UrlString(u) == u.path \o u.query \o u.fragment
\* str.endswith
endswith(s, suffix) ==
    /\ Len(s) >= Len(suffix)
    /\ SubSeq(s, Len(s) - Len(suffix) + 1, Len(s)) = suffix
\* piece in s
contains(s, piece) == \E i \in 1..Len(s) : s[i] = piece
\* urldefrag(url)[0]
urldefrag(u) == [u EXCEPT !.fragment = <<>>]

\* The url and the params smart_crawl_url passes to create_crawl_job in the
\* specifications that do not look at them.
RequestUrl == Url(<<"docs">>, <<>>, <<>>)
RequestParams ==
    Some({<<"max_depth", 3>>, <<"max_concurrent", 10>>, <<"chunk_size", 5000>>})

\* ------------------------------------------------------------- JSON
\* None written as the string "None".
json_dumps_opt_str(v) ==
    IF v = Nil THEN <<"value", "None">> ELSE <<"value", v[1]>>

\* json.dumps of a value that may be None: null, or the value.
json_dumps_opt(v) == IF v = Nil THEN <<"null">> ELSE <<"value", v[1]>>
json_loads_opt(x) == IF x[1] = "null" THEN Nil ELSE Some(x[2])
\* json.dumps(job) / json.loads(data) of a job record: strings, numbers and
\* objects with string keys are written and read back as they are, None is
\* written as null.
json_dumps(rec) ==
    [id |-> rec.id, url |-> rec.url, tenant_id |-> rec.tenant_id,
     status |-> rec.status, params |-> rec.params,
     started_at |-> json_dumps_opt(rec.started_at),
     completed_at |-> json_dumps_opt(rec.completed_at),
     result |-> json_dumps_opt(rec.result),
     error |-> json_dumps_opt(rec.error)]
json_loads(data) ==
    [id |-> data.id, url |-> data.url, tenant_id |-> data.tenant_id,
     status |-> data.status, params |-> data.params,
     started_at |-> json_loads_opt(data.started_at),
     completed_at |-> json_loads_opt(data.completed_at),
     result |-> json_loads_opt(data.result),
     error |-> json_loads_opt(data.error)]

\* ------------------------------------------------------------ the store
EmptyStore ==
    [job        |-> [j \in JobIds |-> Nil],
     job_exp    |-> [j \in JobIds |-> NoExpiry],
     active     |-> [t \in Tenants |-> {}],
     active_exp |-> [t \in Tenants |-> NoExpiry],
     hourly     |-> [t \in Tenants |-> Nil],
     hourly_exp |-> [t \in Tenants |-> NoExpiry]]

\* A count of the active ids of every tenant, not of tenant t alone.
SCARD_all_tenants(R, t) ==
    Cardinality(UNION {R.active[u] : u \in Tenants})

\* r.scard(active_key)
SCARD(R, t) == Cardinality(R.active[t])

\* r.get(hourly_key): Some(count), or Nil
GET_hourly(R, t) == R.hourly[t]

\* r.get(job_key): Some(text), or Nil
GET_job(R, j) == R.job[j]

\* r.sadd(active_key, job_id); a key created here carries no expiry
SADD(R, t, j) == [R EXCEPT !.active[t] = @ \cup {j}]

\* r.expire(active_key, 3600 * 2): no effect on a missing key
EXPIRE_active(R, t, at) ==
    IF R.active[t] = {} THEN R
    ELSE [R EXCEPT !.active_exp[t] = at + ACTIVE_EXPIRY_HOURS]

\* A release that deletes the tenant's whole active key.
SREM_delete_key(R, t, j) ==
    [R EXCEPT !.active[t] = {}, !.active_exp[t] = NoExpiry]

\* r.srem(active_key, job_id); Redis deletes a set that becomes empty
SREM(R, t, j) ==
    LET s == R.active[t] \ {j}
    IN  [R EXCEPT !.active[t] = s,
                  !.active_exp[t] = IF s = {} THEN NoExpiry ELSE @]

\* r.incr(hourly_key): a missing key counts from 0 and gets no expiry
INCR(R, t) ==
    [R EXCEPT !.hourly[t] = IF @ = Nil THEN Some(1) ELSE Some(@[1] + 1)]

\* r.ttl(hourly_key): -2 no key, -1 no expiry, else the time left
TTL(R, t, at) ==
    IF R.hourly[t] = Nil THEN -2
    ELSE IF R.hourly_exp[t] = NoExpiry THEN -1
    ELSE R.hourly_exp[t] - at

\* r.expire(hourly_key, 3600)
EXPIRE_hourly(R, t, at) ==
    IF R.hourly[t] = Nil THEN R
    ELSE [R EXCEPT !.hourly_exp[t] = at + HOURLY_EXPIRY_HOURS]

\* A write that keeps the expiry of a key that exists (SET ... KEEPTTL).
SET_job_keepttl(R, j, rec, at) ==
    [R EXCEPT !.job[j] = Some(json_dumps(rec)),
              !.job_exp[j] = IF R.job[j] = Nil THEN at + JOB_EXPIRY_HOURS
                             ELSE @]

\* r.set(job_key, json.dumps(job), ex=3600 * JOB_EXPIRY_HOURS)
SET_job(R, j, rec, at) ==
    [R EXCEPT !.job[j] = Some(json_dumps(rec)),
              !.job_exp[j] = at + JOB_EXPIRY_HOURS]

Expired(exp, at) == exp # NoExpiry /\ exp <= at

\* The store drops every key whose expiry has been reached.
ExpireKeys(R, at) ==
    [job        |-> [j \in JobIds |->
                        IF Expired(R.job_exp[j], at) THEN Nil ELSE R.job[j]],
     job_exp    |-> [j \in JobIds |->
                        IF Expired(R.job_exp[j], at) THEN NoExpiry
                        ELSE R.job_exp[j]],
     active     |-> [t \in Tenants |->
                        IF Expired(R.active_exp[t], at) THEN {}
                        ELSE R.active[t]],
     active_exp |-> [t \in Tenants |->
                        IF Expired(R.active_exp[t], at) THEN NoExpiry
                        ELSE R.active_exp[t]],
     hourly     |-> [t \in Tenants |->
                        IF Expired(R.hourly_exp[t], at) THEN Nil
                        ELSE R.hourly[t]],
     hourly_exp |-> [t \in Tenants |->
                        IF Expired(R.hourly_exp[t], at) THEN NoExpiry
                        ELSE R.hourly_exp[t]]]

\* ------------------------------------------------- RedisJobManager
\* hourly_count = int(hourly_count) if hourly_count else 0
hourly_int(h) == IF h = Nil THEN 0 ELSE h[1]

\* The two gates with > in place of >=.
rate_check_result_gt(ac, hc) ==
    IF ac > MAX_CONCURRENT_CRAWLS_PER_TENANT
    THEN [allowed |-> FALSE, reason |-> "concurrent",
          active_crawls |-> ac, hourly_crawls |-> hc]
    ELSE IF hc > MAX_CRAWLS_PER_HOUR_PER_TENANT
    THEN [allowed |-> FALSE, reason |-> "hourly",
          active_crawls |-> ac, hourly_crawls |-> hc]
    ELSE [allowed |-> TRUE, reason |-> "none",
          active_crawls |-> ac, hourly_crawls |-> hc]

\* The result check_rate_limit builds from the two counts it has read.
rate_check_result(ac, hc) ==
    IF ac >= MAX_CONCURRENT_CRAWLS_PER_TENANT
    THEN [allowed |-> FALSE, reason |-> "concurrent",
          active_crawls |-> ac, hourly_crawls |-> hc]
    ELSE IF hc >= MAX_CRAWLS_PER_HOUR_PER_TENANT
    THEN [allowed |-> FALSE, reason |-> "hourly",
          active_crawls |-> ac, hourly_crawls |-> hc]
    ELSE [allowed |-> TRUE, reason |-> "none",
          active_crawls |-> ac, hourly_crawls |-> hc]

\* check_rate_limit(tenant_id), as one call
check_rate_limit(R, t) ==
    rate_check_result(SCARD(R, t), hourly_int(GET_hourly(R, t)))

\* increment_rate_counters(tenant_id, job_id), as one call
increment_rate_counters(R, t, j, at) ==
    LET R1 == SADD(R, t, j)
        R2 == EXPIRE_active(R1, t, at)
        R3 == INCR(R2, t)
    IN  IF TTL(R3, t, at) = -1 THEN EXPIRE_hourly(R3, t, at) ELSE R3

\* decrement_active_crawls(tenant_id, job_id)
decrement_active_crawls(R, t, j) == SREM(R, t, j)

\* params or {}: a dict is a set of <<key, value>> pairs
params_or_empty(params) == IF params = Nil THEN {} ELSE params[1]

\* job_data of create_job.  created_at is written here and never again, and
\* nothing reads it: it is left out.
job_data(j, url, t, params, at) ==
    [id |-> j, url |-> url, tenant_id |-> t, status |-> "queued",
     params |-> params_or_empty(params),
     started_at |-> Nil, completed_at |-> Nil, result |-> Nil, error |-> Nil]

\* create_job(url, tenant_id, params), as one call; j is the id uuid4 gives
create_job(R, url, t, params, j, at) ==
    LET rc == check_rate_limit(R, t)
    IN  IF ~rc.allowed
        THEN [success |-> FALSE, rate_limit |-> rc, job |-> Nil, R |-> R]
        ELSE [success |-> TRUE, rate_limit |-> rc,
              job |-> Some(job_data(j, url, t, params, at)),
              R |-> increment_rate_counters(
                        SET_job(R, j, job_data(j, url, t, params, at), at),
                        t, j, at)]

\* get_job(job_id): json.loads(data) if data else None
get_job(R, j) ==
    IF GET_job(R, j) = Nil THEN Nil ELSE Some(json_loads(GET_job(R, j)[1]))

\* The keyword arguments of update_job; Nil is a keyword that is not passed.
Updates(status, result, error) ==
    [status |-> status, result |-> result, error |-> error]

\* A release on "completed" alone.
completing_only_completed(updates) ==
    updates.status # Nil /\ updates.status[1] = "completed"

\* if updates.get("status") in ("completed", "failed")
completing(updates) ==
    updates.status # Nil /\ updates.status[1] \in TerminalStatuses

\* started_at written on every update to "running".
apply_updates_restamp(data, updates, at) ==
    LET j1 == [data EXCEPT
                 !.status = IF updates.status = Nil THEN @ ELSE updates.status[1],
                 !.result = IF updates.result = Nil THEN @ ELSE updates.result,
                 !.error  = IF updates.error = Nil THEN @ ELSE updates.error]
        j2 == IF completing(updates)
              THEN [j1 EXCEPT !.completed_at = Some(at)]
              ELSE j1
    IN  IF updates.status = Some("running")
        THEN [j2 EXCEPT !.started_at = Some(at)]
        ELSE j2

\* update_job's work on its local copy: job.update(updates), then the
\* timestamps.
apply_updates(data, updates, at) ==
    LET j1 == [data EXCEPT
                 !.status = IF updates.status = Nil THEN @ ELSE updates.status[1],
                 !.result = IF updates.result = Nil THEN @ ELSE updates.result,
                 !.error  = IF updates.error = Nil THEN @ ELSE updates.error]
        j2 == IF completing(updates)
              THEN [j1 EXCEPT !.completed_at = Some(at)]
              ELSE j1
    IN  IF updates.status = Some("running") /\ j2.started_at = Nil
        THEN [j2 EXCEPT !.started_at = Some(at)]
        ELSE j2

\* A release made before the record is looked up: a terminal update of a
\* missing record takes the id out of the active sets.
update_job_release_first(R, j, updates, at) ==
    LET data == GET_job(R, j)
        R0 == IF completing(updates)
              THEN [R EXCEPT !.active = [t \in Tenants |-> @[t] \ {j}]]
              ELSE R
    IN  IF data = Nil
        THEN [ok |-> FALSE, R |-> R0]
        ELSE LET jb == apply_updates(json_loads(data[1]), updates, at)
             IN  [ok |-> TRUE, R |-> SET_job(R0, j, jb, at)]

\* update_job(job_id, **updates), as one call
update_job(R, j, updates, at) ==
    LET data == GET_job(R, j)
    IN  IF data = Nil
        THEN [ok |-> FALSE, R |-> R]
        ELSE LET jb == apply_updates(json_loads(data[1]), updates, at)
                 R1 == IF completing(updates)
                       THEN decrement_active_crawls(R, jb.tenant_id, j)
                       ELSE R
             IN  [ok |-> TRUE, R |-> SET_job(R1, j, jb, at)]

\* update_crawl_job(job_id, status, result, error): result and error are
\* passed on only when they are set
update_crawl_job_args(status, result, error) ==
    Updates(Some(status), result, error)

\* list_jobs(tenant_id): r.keys("crawl_job:*"), r.get of each key, and the
\* records of the tenant (of every tenant when tenant_id is None).  The
\* order and the limit are left out.
list_jobs(R, tenant_id) ==
    {json_loads(GET_job(R, j)[1]) :
        j \in {k \in JobIds :
                  /\ GET_job(R, k) # Nil
                  /\ \/ tenant_id = Nil
                     \/ json_loads(GET_job(R, k)[1]).tenant_id = tenant_id[1]}}

\* ------------------------------------------------------------ Init
NoCheck ==
    [allowed |-> FALSE, reason |-> "none", active_crawls |-> 0,
     hourly_crawls |-> 0]
NoCall == [updates |-> Updates(Nil, Nil, Nil), site |-> "none"]

StoreInit ==
    /\ redis = EmptyStore
    /\ now = 0
    /\ pc = [r \in JobIds |-> "idle"]
    /\ tenant = [r \in JobIds |-> "T"]
    /\ active_count = [r \in JobIds |-> 0]
    /\ rate_check = [r \in JobIds |-> NoCheck]
    /\ call = [r \in JobIds |-> NoCall]
    /\ job = [r \in JobIds |-> Nil]
    /\ admitted = [t \in Tenants |-> 0]
    /\ releases = [j \in JobIds |-> 0]
    /\ added_at = [j \in JobIds |-> Nil]

\* No crawl function is running.
NoWorld == [links |-> <<>>, up |-> {}, sitemap |-> {}]
NoCrawl ==
    [fn |-> "none", start_urls |-> {}, max_depth |-> 0, visited |-> {},
     current_urls |-> {}, next_level_urls |-> {}, results_all |-> <<>>,
     depth |-> 0, batch |-> {}, pending |-> {}, pos |-> "idle"]
NoRun == [url |-> RequestUrl, max_depth |-> 0, sitemap_urls |-> {},
          invoked |-> <<>>]

Init ==
    /\ StoreInit
    /\ world = NoWorld
    /\ crawl = NoCrawl
    /\ fetch_log = <<>>
    /\ run = NoRun

\* ------------------------------------------- smart_crawl_url / create_job
\* Request r is made for tenant t.  Requests are numbered in the order in
\* which they arrive; the job id of request r is r.
Request(r, t) ==
    /\ pc[r] = "idle"
    /\ \A q \in JobIds : q < r => pc[q] # "idle"
    /\ pc' = [pc EXCEPT ![r] = "check_scard"]
    /\ tenant' = [tenant EXCEPT ![r] = t]
    /\ UNCHANGED <<redis, now, active_count, rate_check, call, job, admitted,
                   releases, added_at>>
    /\ UNCHANGED crawl_vars

\* active_count = await r.scard(active_key)
CheckScard(r) ==
    /\ pc[r] = "check_scard"
    /\ active_count' = [active_count EXCEPT ![r] = SCARD(redis, tenant[r])]
    /\ pc' = [pc EXCEPT ![r] = "check_get"]
    /\ UNCHANGED <<redis, now, tenant, rate_check, call, job, admitted,
                   releases, added_at>>
    /\ UNCHANGED crawl_vars

\* A check that counts the request while it reads the hourly counter.
CheckGet_counting(r) ==
    /\ pc[r] = "check_get"
    /\ LET rc == rate_check_result(active_count[r],
                                   hourly_int(GET_hourly(redis, tenant[r])))
       IN  /\ rate_check' = [rate_check EXCEPT
                                 ![r] = IF rc.allowed THEN NoCheck ELSE rc]
           /\ pc' = [pc EXCEPT ![r] = IF rc.allowed THEN "job_set"
                                      ELSE "rejected"]
    /\ active_count' = [active_count EXCEPT ![r] = 0]
    /\ redis' = INCR(redis, tenant[r])
    /\ UNCHANGED <<now, tenant, call, job, admitted, releases, added_at>>
    /\ UNCHANGED crawl_vars

\* hourly_count = await r.get(hourly_key); the rest of check_rate_limit and
\* create_job's test of rate_check["allowed"].  A rejected request returns
\* rate_check to its caller; an admitted one does not use it again.
CheckGet(r) ==
    /\ pc[r] = "check_get"
    /\ LET rc == rate_check_result(active_count[r],
                                   hourly_int(GET_hourly(redis, tenant[r])))
       IN  /\ rate_check' = [rate_check EXCEPT
                                 ![r] = IF rc.allowed THEN NoCheck ELSE rc]
           /\ pc' = [pc EXCEPT ![r] = IF rc.allowed THEN "job_set"
                                      ELSE "rejected"]
    /\ active_count' = [active_count EXCEPT ![r] = 0]
    /\ UNCHANGED <<redis, now, tenant, call, job, admitted, releases,
                   added_at>>
    /\ UNCHANGED crawl_vars

\* The background task handed over as soon as the record is written, before
\* the rate counters are incremented.
JobSet_then_schedule(r) ==
    /\ pc[r] = "job_set"
    /\ redis' = SET_job(redis, r,
                        job_data(r, RequestUrl, tenant[r], RequestParams, now),
                        now)
    /\ pc' = [pc EXCEPT ![r] = "scheduled"]
    /\ UNCHANGED <<now, tenant, active_count, rate_check, call, job,
                   admitted, releases, added_at>>
    /\ UNCHANGED crawl_vars

\* await r.set(job_key, json.dumps(job_data), ex=...)
JobSet(r) ==
    /\ pc[r] = "job_set"
    /\ redis' = SET_job(redis, r,
                        job_data(r, RequestUrl, tenant[r], RequestParams, now),
                        now)
    /\ pc' = [pc EXCEPT ![r] = "sadd"]
    /\ UNCHANGED <<now, tenant, active_count, rate_check, call, job,
                   admitted, releases, added_at>>
    /\ UNCHANGED crawl_vars

\* await r.sadd(active_key, job_id)
Sadd(r) ==
    /\ pc[r] = "sadd"
    /\ redis' = SADD(redis, tenant[r], r)
    /\ added_at' = [added_at EXCEPT ![r] = Some(now)]
    /\ pc' = [pc EXCEPT ![r] = "expire_active"]
    /\ UNCHANGED <<now, tenant, active_count, rate_check, call, job,
                   admitted, releases>>
    /\ UNCHANGED crawl_vars

\* await r.expire(active_key, 3600 * 2)
ExpireActive(r) ==
    /\ pc[r] = "expire_active"
    /\ redis' = EXPIRE_active(redis, tenant[r], now)
    /\ pc' = [pc EXCEPT ![r] = "incr"]
    /\ UNCHANGED <<now, tenant, active_count, rate_check, call, job,
                   admitted, releases, added_at>>
    /\ UNCHANGED crawl_vars

\* await r.incr(hourly_key)
Incr(r) ==
    /\ pc[r] = "incr"
    /\ redis' = INCR(redis, tenant[r])
    /\ admitted' = [admitted EXCEPT ![tenant[r]] = @ + 1]
    /\ pc' = [pc EXCEPT ![r] = "ttl"]
    /\ UNCHANGED <<now, tenant, active_count, rate_check, call, job,
                   releases, added_at>>
    /\ UNCHANGED crawl_vars

\* ttl = await r.ttl(hourly_key); if ttl == -1: ...
Ttl(r) ==
    /\ pc[r] = "ttl"
    /\ pc' = [pc EXCEPT ![r] = IF TTL(redis, tenant[r], now) = -1
                               THEN "expire_hourly" ELSE "scheduled"]
    /\ UNCHANGED <<redis, now, tenant, active_count, rate_check, call, job,
                   admitted, releases, added_at>>
    /\ UNCHANGED crawl_vars

\* await r.expire(hourly_key, 3600); create_job returns and smart_crawl_url
\* hands _execute_crawl_job to background_tasks
ExpireHourly(r) ==
    /\ pc[r] = "expire_hourly"
    /\ redis' = EXPIRE_hourly(redis, tenant[r], now)
    /\ pc' = [pc EXCEPT ![r] = "scheduled"]
    /\ UNCHANGED <<now, tenant, active_count, rate_check, call, job,
                   admitted, releases, added_at>>
    /\ UNCHANGED crawl_vars

HandlerStorePcs ==
    {"check_scard", "check_get", "job_set", "sadd", "expire_active", "incr",
     "ttl", "expire_hourly"}

\* The store call the handler is waiting on raises (the store is
\* unreachable): neither create_job nor smart_crawl_url catches it.
HandlerRaises(r) ==
    /\ pc[r] \in HandlerStorePcs
    /\ pc' = [pc EXCEPT ![r] = "http_error"]
    /\ active_count' = [active_count EXCEPT ![r] = 0]
    /\ UNCHANGED <<redis, now, tenant, rate_check, call, job, admitted,
                   releases, added_at>>
    /\ UNCHANGED crawl_vars

\* --------------------------------------------------- _execute_crawl_job
\* Where the runner goes on when the update_job call made at `site` returns:
\* after "Mark job as running" the try block starts; the terminal updates
\* are followed by a return or by the end of the function.
AfterUpdate(site) == IF site = "start" THEN "strategy" ELSE "done"

\* The runner calls update_crawl_job(job_id, status, result, error) at
\* `site`, up to and including update_job's r.get(job_key): a missing record
\* makes update_job return False, which update_crawl_job drops.
BeginUpdate(r, updates, site) ==
    LET data == GET_job(redis, r)
    IN  IF data = Nil
        THEN /\ pc' = [pc EXCEPT ![r] = AfterUpdate(site)]
             /\ UNCHANGED <<call, job>>
        ELSE /\ job' = [job EXCEPT
                          ![r] = Some(apply_updates(json_loads(data[1]),
                                                    updates, now))]
             /\ call' = [call EXCEPT
                           ![r] = [updates |-> updates, site |-> site]]
             /\ pc' = [pc EXCEPT ![r] = IF completing(updates)
                                        THEN "upd_srem" ELSE "upd_set"]

\* The background task starts: await update_crawl_job(job_id, "running").
RunnerStart(r) ==
    /\ pc[r] = "scheduled"
    /\ BeginUpdate(r, update_crawl_job_args("running", Nil, Nil), "start")
    /\ UNCHANGED <<redis, now, tenant, active_count, rate_check, admitted,
                   releases, added_at>>
    /\ UNCHANGED crawl_vars

\* What the runner does with the outcome of its strategy:
\*   sitemap_empty  parse_sitemap returned no URL
\*   empty          crawl_results is empty
\*   results        pages were crawled and stored
TerminalUpdate(outcome) ==
    IF outcome = "sitemap_empty"
    THEN update_crawl_job_args("failed", Nil, Some("No URLs found in sitemap"))
    ELSE IF outcome = "empty"
    THEN update_crawl_job_args("failed", Nil, Some("No content found"))
    ELSE update_crawl_job_args("completed", Some("summary"), Nil)

Outcomes == {"sitemap_empty", "empty", "results"}

\* The strategy has run; the runner writes the terminal status.
StrategyEnds(r, outcome) ==
    /\ pc[r] = "strategy"
    /\ BeginUpdate(r, TerminalUpdate(outcome), "try")
    /\ UNCHANGED <<redis, now, tenant, active_count, rate_check, admitted,
                   releases, added_at>>
    /\ UNCHANGED crawl_vars

\* await self.decrement_active_crawls(job["tenant_id"], job_id)
UpdSrem(r) ==
    /\ pc[r] = "upd_srem"
    /\ redis' = decrement_active_crawls(redis, job[r][1].tenant_id, r)
    /\ releases' = [releases EXCEPT ![r] = @ + 1]
    /\ pc' = [pc EXCEPT ![r] = "upd_set"]
    /\ UNCHANGED <<now, tenant, active_count, rate_check, call, job,
                   admitted, added_at>>
    /\ UNCHANGED crawl_vars

\* await r.set(job_key, json.dumps(job), ex=...); update_job returns True
UpdSet(r) ==
    /\ pc[r] = "upd_set"
    /\ redis' = SET_job(redis, r, job[r][1], now)
    /\ pc' = [pc EXCEPT ![r] = AfterUpdate(call[r].site)]
    /\ call' = [call EXCEPT ![r] = NoCall]
    /\ job' = [job EXCEPT ![r] = Nil]
    /\ UNCHANGED <<now, tenant, active_count, rate_check, admitted,
                   releases, added_at>>
    /\ UNCHANGED crawl_vars

\* Something inside the try block raises: get_context, the strategy, the
\* storing of the results, or a store call of a terminal update made there.
\* Control passes to `except Exception`.
RaisedInTry(r) ==
    /\ \/ pc[r] = "strategy"
       \/ pc[r] \in {"upd_srem", "upd_set"} /\ call[r].site = "try"
    /\ pc' = [pc EXCEPT ![r] = "except"]
    /\ call' = [call EXCEPT ![r] = NoCall]
    /\ job' = [job EXCEPT ![r] = Nil]
    /\ UNCHANGED <<redis, now, tenant, active_count, rate_check, admitted,
                   releases, added_at>>
    /\ UNCHANGED crawl_vars

\* except Exception as e: await update_crawl_job(job_id, "failed", error=str(e))
ExceptUpdate(r) ==
    /\ pc[r] = "except"
    /\ BeginUpdate(r, update_crawl_job_args("failed", Nil, Some("exception")),
                   "except")
    /\ UNCHANGED <<redis, now, tenant, active_count, rate_check, admitted,
                   releases, added_at>>
    /\ UNCHANGED crawl_vars

\* A store call raises outside the try block (the update to "running") or
\* inside the except handler: the exception leaves the runner.
RunnerRaises(r) ==
    /\ \/ pc[r] \in {"scheduled", "except"}
       \/ pc[r] \in {"upd_srem", "upd_set"} /\ call[r].site \in {"start", "except"}
    /\ pc' = [pc EXCEPT ![r] = "task_error"]
    /\ call' = [call EXCEPT ![r] = NoCall]
    /\ job' = [job EXCEPT ![r] = Nil]
    /\ UNCHANGED <<redis, now, tenant, active_count, rate_check, admitted,
                   releases, added_at>>
    /\ UNCHANGED crawl_vars

RunnerLivePcs == {"scheduled", "strategy", "except", "upd_srem", "upd_set"}

\* The process that holds the background task dies.
Crash(r) ==
    /\ pc[r] \in RunnerLivePcs
    /\ pc' = [pc EXCEPT ![r] = "crashed"]
    /\ call' = [call EXCEPT ![r] = NoCall]
    /\ job' = [job EXCEPT ![r] = Nil]
    /\ UNCHANGED <<redis, now, tenant, active_count, rate_check, admitted,
                   releases, added_at>>
    /\ UNCHANGED crawl_vars

\* ------------------------------------------- calls of RedisJobManager
\* The id uuid4 gives next: ids are handed out in order, each once.
Unused(j) == pc[j] = "idle"
NextId == CHOOSE j \in CallIds : Unused(j) /\ \A k \in CallIds : k < j => ~Unused(k)

\* create_job(url, t, params), one whole call
CallCreate(t) ==
    /\ \E j \in CallIds : Unused(j)
    /\ LET j == NextId
           res == create_job(redis, RequestUrl, t, RequestParams, j, now)
       IN  /\ redis' = res.R
           /\ IF res.success
              THEN /\ pc' = [pc EXCEPT ![j] = "scheduled"]
                   /\ tenant' = [tenant EXCEPT ![j] = t]
                   /\ added_at' = [added_at EXCEPT ![j] = Some(now)]
                   /\ admitted' = [admitted EXCEPT ![t] = @ + 1]
              ELSE UNCHANGED <<pc, tenant, added_at, admitted>>
    /\ UNCHANGED <<now, active_count, rate_check, call, job, releases>>
    /\ UNCHANGED crawl_vars

\* The runner of job j makes one whole update_job call and moves on to `to`.
RunnerUpdate(j, updates, to) ==
    /\ LET res == update_job(redis, j, updates, now)
       IN  /\ redis' = res.R
           /\ releases' = [releases EXCEPT
                             ![j] = IF res.ok /\ completing(updates)
                                    THEN @ + 1 ELSE @]
    /\ pc' = [pc EXCEPT ![j] = to]
    /\ UNCHANGED <<now, tenant, active_count, rate_check, call, job,
                   admitted, added_at>>
    /\ UNCHANGED crawl_vars

\* _execute_crawl_job: await update_crawl_job(job_id, "running")
CallRunning(j) ==
    /\ pc[j] = "scheduled"
    /\ RunnerUpdate(j, update_crawl_job_args("running", Nil, Nil), "strategy")

\* _execute_crawl_job: the terminal update_crawl_job of the try block
CallTerminal(j, outcome) ==
    /\ pc[j] = "strategy"
    /\ RunnerUpdate(j, TerminalUpdate(outcome), "done")

\* update_job(j, status=status), one whole call, for any id and status
CallUpdate(j, status) ==
    /\ LET updates == update_crawl_job_args(status, Nil, Nil)
           res == update_job(redis, j, updates, now)
       IN  /\ redis' = res.R
    /\ UNCHANGED <<now, pc, tenant, active_count, rate_check, call, job,
                   admitted, releases, added_at>>
    /\ UNCHANGED crawl_vars

\* get_job(j), one whole call: a read, the store is left as it is
CallGet(j) ==
    /\ get_job(redis, j) \in {Nil} \cup {Some(rec) : rec \in list_jobs(redis, Nil)}
    /\ UNCHANGED store_vars
    /\ UNCHANGED crawl_vars

\* list_jobs(tenant_id), one whole call: reads only
CallList(tenant_id) ==
    /\ list_jobs(redis, tenant_id) \subseteq list_jobs(redis, Nil)
    /\ UNCHANGED store_vars
    /\ UNCHANGED crawl_vars

\* ------------------------------------------------------------- time
\* An hour passes; the store drops the keys whose expiry is reached.
Tick ==
    /\ now < MaxTime
    /\ now' = now + 1
    /\ redis' = ExpireKeys(redis, now + 1)
    /\ admitted' = [t \in Tenants |->
                      IF Expired(redis.hourly_exp[t], now + 1) THEN 0
                      ELSE admitted[t]]
    /\ UNCHANGED <<pc, tenant, active_count, rate_check, call, job, releases,
                   added_at>>
    /\ UNCHANGED crawl_vars

\* ------------------------------------------------------ the crawled site
\* The pages of the site, as fragment-free URLs.
PageNames == <<"p1", "p2", "p3", "p4", "p5">>
Page(n) == Url(<<PageNames[n]>>, <<>>, <<>>)
Pages == {Page(n) : n \in 1..NumPages}
\* A link to a place inside page q.
Anchor(q) == [q EXCEPT !.fragment = <<"section">>]
\* The page a URL is served from: servers never see the fragment.
PageOf(u) == Url(u.path, u.query, <<>>)

\* result.success and result.markdown of the crawler's result for u
fetch_ok(W, u) == PageOf(u) \in W.up
\* result.links.get("internal", []): every link of the page appears as the
\* plain URL and as an anchor into the linked page.
internal_links(W, u) ==
    IF PageOf(u) \in DOMAIN W.links
    THEN W.links[PageOf(u)] \cup {Anchor(q) : q \in W.links[PageOf(u)]}
    ELSE {}

\* The sites: any link graph over the pages; every page answers, or all
\* but one do.
Sites ==
    [links : [Pages -> SUBSET Pages],
     up : {Pages} \cup {Pages \ {p} : p \in Pages},
     sitemap : {{}}]
\* The start_urls a crawl is given.
StartUrlSets == (SUBSET {Page(1), Anchor(Page(1)), Page(2)}) \ {{}}

\* ------------------------------------ crawl_recursive_internal_links
\* A URL kept with its fragment.
normalize_url_keep_fragment(u) == u

\* normalize_url(url)
normalize_url(u) == urldefrag(u)

\* The locals of crawl_recursive_internal_links(crawler, start_urls,
\* max_depth) at its first loop test.
RecursiveStart(start_urls, max_depth) ==
    [fn |-> "crawl_recursive_internal_links",
     start_urls |-> start_urls, max_depth |-> max_depth,
     visited |-> {},
     current_urls |-> {normalize_url(u) : u \in start_urls},
     next_level_urls |-> {}, results_all |-> <<>>, depth |-> 0,
     batch |-> {}, pending |-> {}, pos |-> "loop"]

\* Two rounds more than max_depth.
in_range_two_more(depth, max_depth) == depth < max_depth + 2

\* range(max_depth): the loop body runs for depth = 0 .. max_depth - 1
in_range(depth, max_depth) == depth < max_depth

\* for depth in range(max_depth): urls_to_crawl = [...]; break when it is
\* empty, else hand it to crawler.arun_many
BfsLoop ==
    /\ crawl.fn = "crawl_recursive_internal_links"
    /\ crawl.pos = "loop"
    /\ LET urls_to_crawl ==
               {normalize_url(u) :
                    u \in {v \in crawl.current_urls :
                               normalize_url(v) \notin crawl.visited}}
       IN  IF in_range(crawl.depth, crawl.max_depth) /\ urls_to_crawl # {}
           THEN /\ crawl' = [crawl EXCEPT !.batch = urls_to_crawl,
                                          !.pos = "await"]
                /\ fetch_log' = Append(fetch_log, urls_to_crawl)
           ELSE /\ crawl' = [crawl EXCEPT !.pos = "returned"]
                /\ UNCHANGED fetch_log
    /\ UNCHANGED <<world, run>>
    /\ UNCHANGED store_vars

\* results = await crawler.arun_many(...): one result for every URL;
\* next_level_urls = set()
BfsAwait ==
    /\ crawl.fn = "crawl_recursive_internal_links"
    /\ crawl.pos = "await"
    /\ crawl' = [crawl EXCEPT !.pending = crawl.batch, !.batch = {},
                              !.next_level_urls = {}, !.pos = "for"]
    /\ UNCHANGED <<world, fetch_log, run>>
    /\ UNCHANGED store_vars

\* A pass that does not record the URL as visited.
BfsResult_forgets(u) ==
    /\ crawl.fn = "crawl_recursive_internal_links"
    /\ crawl.pos = "for"
    /\ u \in crawl.pending
    /\ LET found == {normalize_url(h) : h \in internal_links(world, u)}
       IN  crawl' =
             IF fetch_ok(world, u)
             THEN [crawl EXCEPT
                     !.results_all = Append(@, u),
                     !.next_level_urls = @ \cup (found \ crawl.visited),
                     !.pending = @ \ {u}]
             ELSE [crawl EXCEPT !.pending = @ \ {u}]
    /\ UNCHANGED <<world, fetch_log, run>>
    /\ UNCHANGED store_vars

\* One pass of `for result in results`, for the result of URL u.
BfsResult(u) ==
    /\ crawl.fn = "crawl_recursive_internal_links"
    /\ crawl.pos = "for"
    /\ u \in crawl.pending
    /\ LET norm_url == normalize_url(u)
           visited1 == crawl.visited \cup {norm_url}
           found == {normalize_url(h) : h \in internal_links(world, u)}
       IN  crawl' =
             IF fetch_ok(world, u)
             THEN [crawl EXCEPT
                     !.visited = visited1,
                     !.results_all = Append(@, u),
                     !.next_level_urls = @ \cup (found \ visited1),
                     !.pending = @ \ {u}]
             ELSE [crawl EXCEPT !.visited = visited1, !.pending = @ \ {u}]
    /\ UNCHANGED <<world, fetch_log, run>>
    /\ UNCHANGED store_vars

\* The next level taken up while results of the batch are still to come.
BfsNext_early ==
    /\ crawl.fn = "crawl_recursive_internal_links"
    /\ crawl.pos = "for"
    /\ crawl' = [crawl EXCEPT !.current_urls = crawl.next_level_urls,
                              !.depth = @ + 1, !.pos = "loop"]
    /\ UNCHANGED <<world, fetch_log, run>>
    /\ UNCHANGED store_vars

\* The for loop is over: current_urls = next_level_urls, next depth.
BfsNext ==
    /\ crawl.fn = "crawl_recursive_internal_links"
    /\ crawl.pos = "for"
    /\ crawl.pending = {}
    /\ crawl' = [crawl EXCEPT !.current_urls = crawl.next_level_urls,
                              !.depth = @ + 1, !.pos = "loop"]
    /\ UNCHANGED <<world, fetch_log, run>>
    /\ UNCHANGED store_vars

\* ------------------------------------- crawl_markdown_file, crawl_batch
\* The locals of crawl_markdown_file(crawler, url) once it has called
\* crawler.arun(url=url): the URL goes to the crawler as it was given.
FileStart(url) ==
    [NoCrawl EXCEPT !.fn = "crawl_markdown_file", !.start_urls = {url},
                    !.batch = {url}, !.pos = "await"]

\* The locals of crawl_batch(crawler, urls) once it has called
\* crawler.arun_many(urls=urls).
BatchStart(urls) ==
    [NoCrawl EXCEPT !.fn = "crawl_batch", !.start_urls = urls,
                    !.batch = urls, !.pos = "await"]

\* The orders in which a list can hold the elements of S.
Orderings(S) ==
    {f \in [1..Cardinality(S) -> S] :
         \A i \in DOMAIN f, j \in DOMAIN f : f[i] = f[j] => i = j}

\* crawl_markdown_file: result = await crawler.arun(...); one result when
\* result.success and result.markdown, else none
FileReturn ==
    /\ crawl.fn = "crawl_markdown_file"
    /\ crawl.pos = "await"
    /\ \E u \in crawl.batch :
          crawl' = [crawl EXCEPT
                      !.results_all = IF fetch_ok(world, u) THEN <<u>>
                                      ELSE <<>>,
                      !.batch = {}, !.pos = "returned"]
    /\ UNCHANGED <<world, fetch_log, run>>
    /\ UNCHANGED store_vars

\* A batch that gives nothing when one of its fetches failed.
BatchReturn_all_or_nothing ==
    /\ crawl.fn = "crawl_batch"
    /\ crawl.pos = "await"
    /\ \E rs \in Orderings(IF \A u \in crawl.batch : fetch_ok(world, u)
                            THEN crawl.batch ELSE {}) :
          crawl' = [crawl EXCEPT !.results_all = rs, !.batch = {},
                                 !.pos = "returned"]
    /\ UNCHANGED <<world, fetch_log, run>>
    /\ UNCHANGED store_vars

\* crawl_batch: results = await crawler.arun_many(...); the results with
\* r.success and r.markdown are returned, in the order the crawler gives
BatchReturn ==
    /\ crawl.fn = "crawl_batch"
    /\ crawl.pos = "await"
    /\ \E rs \in Orderings({u \in crawl.batch : fetch_ok(world, u)}) :
          crawl' = [crawl EXCEPT !.results_all = rs, !.batch = {},
                                 !.pos = "returned"]
    /\ UNCHANGED <<world, fetch_log, run>>
    /\ UNCHANGED store_vars

\* ------------------------------------- _execute_crawl_job: the strategy
\* The job whose runner is followed through its strategy.
RunJob == 1

\* is_txt(url)
is_txt(url) == endswith(UrlString(url), <<".txt">>)
\* is_sitemap(url)
is_sitemap(url) ==
    \/ endswith(UrlString(url), <<"sitemap", ".xml">>)
    \/ contains(url.path, "sitemap")
\* parse_sitemap(url): the <loc> entries of the document, none when the
\* answer is not 200 or not XML
parse_sitemap(W, url) == W.sitemap

\* The sitemap test made before the text-file test.
select_strategy_sitemap_first(url) ==
    IF is_sitemap(url) THEN "sitemap"
    ELSE IF is_txt(url) THEN "text_file"
    ELSE "webpage"

\* if is_txt(url): ... elif is_sitemap(url): ... else: ...; the value is
\* the crawl_type of the branch
select_strategy(url) ==
    IF is_txt(url) THEN "text_file"
    ELSE IF is_sitemap(url) THEN "sitemap"
    ELSE "webpage"

\* The sitemap's URLs crawled as start_urls of the recursive crawl.
sitemap_crawl_expanding(urls, max_depth) == RecursiveStart(urls, max_depth)

\* crawl_batch(crawler, sitemap_urls, max_concurrent): max_depth is not
\* passed on
sitemap_crawl(urls, max_depth) == BatchStart(urls)

\* The crawl function the chosen branch calls, up to its first await.
strategy_call(W, url, max_depth) ==
    IF select_strategy(url) = "text_file" THEN FileStart(url)
    ELSE IF select_strategy(url) = "sitemap"
    THEN IF parse_sitemap(W, url) = {}
         THEN [NoCrawl EXCEPT !.fn = "parse_sitemap", !.pos = "no_urls"]
         ELSE sitemap_crawl(parse_sitemap(W, url), max_depth)
    ELSE RecursiveStart({url}, max_depth)

\* The runner is inside its try block.
Running == pc[RunJob] = "strategy"

\* ctx = await get_context(); the branch on the shape of the URL, and the
\* call of the crawl function of that branch
RunSelect ==
    /\ Running
    /\ crawl.fn = "none"
    /\ crawl' = strategy_call(world, run.url, run.max_depth)
    /\ run' = [run EXCEPT
                 !.invoked = Append(@, select_strategy(run.url)),
                 !.sitemap_urls = IF select_strategy(run.url) = "sitemap"
                                  THEN parse_sitemap(world, run.url) ELSE @]
    /\ fetch_log' = IF crawl'.pos = "await"
                    THEN Append(fetch_log, crawl'.batch) ELSE fetch_log
    /\ UNCHANGED world
    /\ UNCHANGED store_vars

\* The steps of the crawl function the runner is waiting for.
RunFileReturn == Running /\ FileReturn
RunBatchReturn == Running /\ BatchReturn
RunBfsLoop == Running /\ BfsLoop
RunBfsAwait == Running /\ BfsAwait
RunBfsResult(u) == Running /\ BfsResult(u)
RunBfsNext == Running /\ BfsNext

\* if not sitemap_urls: update_crawl_job(job_id, "failed", ...); return
RunSitemapEmpty ==
    /\ crawl.pos = "no_urls"
    /\ CallTerminal(RunJob, "sitemap_empty")

\* "No content found" when crawl_results is empty, else the results are
\* stored and the job is completed
run_outcome_always_results(results) == "results"

run_outcome(results) == IF results = <<>> THEN "empty" ELSE "results"

\* The crawl function has returned: if not crawl_results: ...; the storing
\* of the results; the terminal update
RunFinish ==
    /\ crawl.pos = "returned"
    /\ CallTerminal(RunJob, run_outcome(crawl.results_all))

\* get_context, the crawl function or the storing of the results raises:
\* except Exception as e: update_crawl_job(job_id, "failed", error=str(e)).
\* With nothing crawled there is nothing between the crawl function's return
\* and the terminal update.
RunRaises ==
    /\ Running
    /\ crawl.pos \notin {"returned", "no_urls"} \/ crawl.results_all # <<>>
    /\ RunnerUpdate(RunJob,
                    update_crawl_job_args("failed", Nil, Some("exception")),
                    "done")

\* ---------------------------------------------------- specifications
\* Spec: requests and runners interleaved store call by store call, with
\* store calls that raise, within one hour (no expiry falls due).
Next ==
    \/ \E r \in JobIds, t \in Tenants : Request(r, t)
    \/ \E r \in JobIds : CheckScard(r)
    \/ \E r \in JobIds : CheckGet(r)
    \/ \E r \in JobIds : JobSet(r)
    \/ \E r \in JobIds : Sadd(r)
    \/ \E r \in JobIds : ExpireActive(r)
    \/ \E r \in JobIds : Incr(r)
    \/ \E r \in JobIds : Ttl(r)
    \/ \E r \in JobIds : ExpireHourly(r)
    \/ \E r \in JobIds : HandlerRaises(r)
    \/ \E r \in JobIds : RunnerStart(r)
    \/ \E r \in JobIds, o \in Outcomes : StrategyEnds(r, o)
    \/ \E r \in JobIds : UpdSrem(r)
    \/ \E r \in JobIds : UpdSet(r)
    \/ \E r \in JobIds : RaisedInTry(r)
    \/ \E r \in JobIds : ExceptUpdate(r)
    \/ \E r \in JobIds : RunnerRaises(r)

Spec == Init /\ [][Next]_vars

\* SpecCalls: requests and runners making one whole call at a time, runners
\* that die, and the hours passing.
NextCalls ==
    \/ \E t \in Tenants : CallCreate(t)
    \/ \E j \in CallIds : CallRunning(j)
    \/ \E j \in CallIds, o \in Outcomes : CallTerminal(j, o)
    \/ \E j \in CallIds : Crash(j)
    \/ Tick

SpecCalls == Init /\ [][NextCalls]_vars

\* SpecLong: as SpecCalls, with as many jobs as Spec has requests, so that
\* a tenant can ask for more jobs than MAX_CONCURRENT_CRAWLS_PER_TENANT
\* while its earlier jobs are still running.
NextJobId ==
    CHOOSE j \in JobIds : Unused(j) /\ \A k \in JobIds : k < j => ~Unused(k)

\* create_job(url, t, params), one whole call, with the ids of JobIds
CreateJob(t) ==
    /\ \E j \in JobIds : Unused(j)
    /\ LET j == NextJobId
           res == create_job(redis, RequestUrl, t, RequestParams, j, now)
       IN  /\ redis' = res.R
           /\ IF res.success
              THEN /\ pc' = [pc EXCEPT ![j] = "scheduled"]
                   /\ tenant' = [tenant EXCEPT ![j] = t]
                   /\ added_at' = [added_at EXCEPT ![j] = Some(now)]
                   /\ admitted' = [admitted EXCEPT ![t] = @ + 1]
              ELSE UNCHANGED <<pc, tenant, added_at, admitted>>
    /\ UNCHANGED <<now, active_count, rate_check, call, job, releases>>
    /\ UNCHANGED crawl_vars

NextLong ==
    \/ \E t \in Tenants : CreateJob(t)
    \/ \E j \in JobIds : CallRunning(j)
    \/ \E j \in JobIds, o \in Outcomes : CallTerminal(j, o)
    \/ Tick

SpecLong == Init /\ [][NextLong]_vars

\* SpecStore: the job store under any sequence of update_job calls.
NextStore ==
    \/ \E t \in Tenants : CallCreate(t)
    \/ \E j \in CallIds, s \in Statuses : CallUpdate(j, s)
    \/ \E j \in CallIds : CallGet(j)
    \/ \E t \in {Nil} \cup {Some(u) : u \in Tenants} : CallList(t)
    \/ Tick

SpecStore == Init /\ [][NextStore]_vars

\* SpecCrawl: one run of crawl_recursive_internal_links, on any site, from
\* any start_urls and for any max_depth.
InitCrawl ==
    /\ StoreInit
    /\ world \in Sites
    /\ \E su \in StartUrlSets, d \in 0..MaxDepth :
          crawl = RecursiveStart(su, d)
    /\ fetch_log = <<>>
    /\ run = NoRun

NextCrawl ==
    \/ BfsLoop
    \/ BfsAwait
    \/ \E u \in crawl.pending : BfsResult(u)
    \/ BfsNext

SpecCrawl == InitCrawl /\ [][NextCrawl]_vars

\* SpecTerm: one run of crawl_recursive_internal_links with max_depth up to
\* DeepDepth, every fetch returning: the event loop resumes the coroutine
\* whenever the call it awaits has returned.
DeepDepth == MaxDepth + 2
InitTerm ==
    /\ StoreInit
    /\ world \in Sites
    /\ \E su \in StartUrlSets, d \in 0..DeepDepth :
          crawl = RecursiveStart(su, d)
    /\ fetch_log = <<>>
    /\ run = NoRun

SpecTerm == InitTerm /\ [][NextCrawl]_vars /\ WF_vars(NextCrawl)

\* SpecFetch: one run of crawl_batch or of crawl_recursive_internal_links on
\* a site where any set of pages fails to answer.
FetchSites ==
    [links : [Pages -> {S \in SUBSET Pages : Cardinality(S) <= 1}],
     up : SUBSET Pages,
     sitemap : {{}}]
BatchUrlSets == (SUBSET Pages) \ {{}}

InitFetch ==
    /\ StoreInit
    /\ world \in FetchSites
    /\ \/ /\ \E su \in StartUrlSets, d \in 0..MaxDepth :
                 crawl = RecursiveStart(su, d)
          /\ fetch_log = <<>>
       \/ \E urls \in BatchUrlSets :
             /\ crawl = BatchStart(urls)
             /\ fetch_log = <<urls>>
    /\ run = NoRun

NextFetch ==
    \/ BatchReturn
    \/ BfsLoop
    \/ BfsAwait
    \/ \E u \in crawl.pending : BfsResult(u)
    \/ BfsNext

SpecFetch == InitFetch /\ [][NextFetch]_vars

\* SpecRun: one job from the moment its runner is scheduled: the update to
\* running, the strategy its URL selects, the crawl, the terminal update.
\* The store calls succeed; the crawl and the storing of results may raise.
JobUrls ==
    {Page(1),
     Url(<<"p1">>, <<>>, <<"sitemap">>),
     Url(<<"docs">>, <<"sitemap">>, <<>>),
     Url(<<"notes", ".txt">>, <<>>, <<>>),
     Url(<<"docs">>, <<>>, <<".txt">>),
     Url(<<"sitemap", ".txt">>, <<>>, <<>>),
     Url(<<"sitemap", ".xml">>, <<>>, <<>>),
     Url(<<"sitemap", "index">>, <<>>, <<>>),
     Url(<<"docs">>, <<"sitemap", ".xml">>, <<>>)}
\* The sites a job runs against: pages with at most one link each; every
\* page answers, or the job's own URL does not, or none does; a sitemap
\* document lists any set of pages.
RunSites(url) ==
    [links : [Pages -> {S \in SUBSET Pages : Cardinality(S) <= 1}],
     up : {Pages \cup {PageOf(url)}, Pages \ {PageOf(url)}, {}},
     sitemap : IF is_sitemap(url) THEN SUBSET Pages ELSE {{}}]
JobParams(d) ==
    Some({<<"max_depth", d>>, <<"max_concurrent", 10>>, <<"chunk_size", 5000>>})

InitRun ==
    /\ \E url \in JobUrls, d \in 0..MaxDepth :
          /\ run = [url |-> url, max_depth |-> d, sitemap_urls |-> {},
                    invoked |-> <<>>]
          /\ redis = create_job(EmptyStore, url, "T", JobParams(d), RunJob, 0).R
          /\ world \in RunSites(url)
    /\ now = 0
    /\ pc = [r \in JobIds |-> IF r = RunJob THEN "scheduled" ELSE "idle"]
    /\ tenant = [r \in JobIds |-> "T"]
    /\ active_count = [r \in JobIds |-> 0]
    /\ rate_check = [r \in JobIds |-> NoCheck]
    /\ call = [r \in JobIds |-> NoCall]
    /\ job = [r \in JobIds |-> Nil]
    /\ admitted = [t \in Tenants |-> IF t = "T" THEN 1 ELSE 0]
    /\ releases = [j \in JobIds |-> 0]
    /\ added_at = [j \in JobIds |-> IF j = RunJob THEN Some(0) ELSE Nil]
    /\ crawl = NoCrawl
    /\ fetch_log = <<>>

NextRun ==
    \/ CallRunning(RunJob)
    \/ RunSelect
    \/ RunSitemapEmpty
    \/ RunFileReturn
    \/ RunBatchReturn
    \/ RunBfsLoop
    \/ RunBfsAwait
    \/ \E u \in crawl.pending : RunBfsResult(u)
    \/ RunBfsNext
    \/ RunFinish
    \/ RunRaises

SpecRun == InitRun /\ [][NextRun]_vars

\* ---------------------------------------------------------- claims
ActiveCount(t) == Cardinality(redis.active[t])
HourlyCount(t) == IF redis.hourly[t] = Nil THEN 0 ELSE redis.hourly[t][1]
Unfinished == {"queued", "running"}
StoredStatus(j) == IF redis.job[j] = Nil THEN "none" ELSE redis.job[j][1].status

\* C1: for every tenant, in every reachable state, the tenant's active-job
\* set holds at most MAX_CONCURRENT_CRAWLS_PER_TENANT ids, however the
\* create_job calls and the completions interleave.
C1_ActiveWithinLimit ==
    \A t \in Tenants : ActiveCount(t) <= MAX_CONCURRENT_CRAWLS_PER_TENANT

\* C2: for every tenant, the number of jobs admitted since the hourly counter
\* was created (and before it expires) is at most
\* MAX_CRAWLS_PER_HOUR_PER_TENANT, also when create_job calls run concurrently.
C2_HourlyWithinLimit ==
    \A t \in Tenants : admitted[t] <= MAX_CRAWLS_PER_HOUR_PER_TENANT

RunnerEnded(r) == pc[r] \in {"done", "task_error"}
C4_ReleaseOnEveryEnd ==
    \A r \in JobIds :
        RunnerEnded(r) => releases[r] = 1 /\ r \notin redis.active[tenant[r]]

\* C5: under any sequence of update_job calls the stored status of a job only
\* moves forward along queued -> running -> {completed, failed}; a completed
\* or failed job keeps its status.
Rank(st) == IF st = "queued" THEN 0 ELSE IF st = "running" THEN 1 ELSE 2
C5_StatusMonotonic ==
    [][\A j \in CallIds :
          (redis.job[j] # Nil /\ redis'.job[j] # Nil) =>
              /\ Rank(redis.job[j][1].status) <= Rank(redis'.job[j][1].status)
              /\ redis.job[j][1].status \in TerminalStatuses =>
                     redis'.job[j][1].status = redis.job[j][1].status]_vars

\* C6: the id of a job whose runner died without a terminal update leaves
\* the tenant's active set by the safety TTL, that is no later than
\* ACTIVE_EXPIRY_HOURS after the job was admitted, whatever the tenant
\* admits in the meantime.
C6_CrashedSlotExpires ==
    \A j \in CallIds :
        (pc[j] = "crashed" /\ j \in redis.active[tenant[j]]) =>
            now < added_at[j][1] + ACTIVE_EXPIRY_HOURS

\* C7: check_rate_limit(tenant) answers allowed = false if and only if the
\* tenant's active set holds MAX_CONCURRENT_CRAWLS_PER_TENANT ids or more, or
\* its hourly counter (0 when missing) is MAX_CRAWLS_PER_HOUR_PER_TENANT or
\* more; the counts it reports are the stored ones.
C7_CheckRateLimit ==
    \A t \in Tenants :
        LET rc == check_rate_limit(redis, t)
        IN  /\ rc.allowed = FALSE <=>
                  \/ ActiveCount(t) >= MAX_CONCURRENT_CRAWLS_PER_TENANT
                  \/ HourlyCount(t) >= MAX_CRAWLS_PER_HOUR_PER_TENANT
            /\ rc.active_crawls = ActiveCount(t)
            /\ rc.hourly_crawls = HourlyCount(t)

\* After admissions, completions and expiries, exactly one of the two gates
\* denies a tenant.
C7_Witness ==
    \E t \in Tenants :
        /\ admitted[t] > 0 \/ ActiveCount(t) > 0
        /\ (ActiveCount(t) >= MAX_CONCURRENT_CRAWLS_PER_TENANT)
               # (HourlyCount(t) >= MAX_CRAWLS_PER_HOUR_PER_TENANT)

\* C8: a request the rate limit rejects leaves the store as it was: none of
\* its steps (in particular no step of check_rate_limit) changes the store,
\* no record and no set entry exist for it, and no runner is started for it.
C8_RejectedLeavesStore ==
    /\ [](\A r \in JobIds :
            pc[r] = "rejected" =>
                /\ ~rate_check[r].allowed
                /\ redis.job[r] = Nil
                /\ \A t \in Tenants : r \notin redis.active[t]
                /\ added_at[r] = Nil)
    /\ [][\A r \in JobIds :
            /\ (pc[r] \in {"idle", "check_scard", "check_get"}
                   /\ pc'[r] # pc[r]) =>
                   (redis' = redis /\ admitted' = admitted)
            /\ pc[r] = "rejected" => pc'[r] = "rejected"]_vars

\* A request was rejected while the tenant's counters stand at a limit.
C8_Witness ==
    \E r \in JobIds :
        /\ pc[r] = "rejected"
        /\ \/ ActiveCount(tenant[r]) >= MAX_CONCURRENT_CRAWLS_PER_TENANT
           \/ HourlyCount(tenant[r]) >= MAX_CRAWLS_PER_HOUR_PER_TENANT

\* The store with tenant t's rate state replaced by a.
WithRateState(R, t, a) ==
    [R EXCEPT !.active[t] = a.active, !.hourly[t] = a.hourly]
\* Rate states of a tenant: nothing stored, or the set and the counter at
\* their limits.
RateStates ==
    [active : {{}, 1..MAX_CONCURRENT_CRAWLS_PER_TENANT},
     hourly : {Nil, Some(MAX_CRAWLS_PER_HOUR_PER_TENANT)}]

\* C9: the decision for a tenant depends on that tenant's active set and
\* hourly counter alone: it is the same whatever the rate state of another
\* tenant is, and no step of a request or runner of tenant t changes the rate
\* state of another tenant u.  With t at MAX_CONCURRENT_CRAWLS_PER_TENANT
\* active jobs a create for t is denied and reports that count, while a
\* create for u, with no active job (and its hourly count below the limit),
\* succeeds.
C9_TenantIsolation ==
    /\ [](\A t \in Tenants : \A u \in Tenants \ {t} :
            /\ \A a \in RateStates :
                  check_rate_limit(WithRateState(redis, t, a), u)
                      = check_rate_limit(redis, u)
            /\ (/\ ActiveCount(t) = MAX_CONCURRENT_CRAWLS_PER_TENANT
                /\ ActiveCount(u) = 0
                /\ HourlyCount(u) < MAX_CRAWLS_PER_HOUR_PER_TENANT) =>
                   /\ ~create_job(redis, RequestUrl, t, RequestParams, 1, now).success
                   /\ create_job(redis, RequestUrl, t, RequestParams, 1, now).rate_limit.active_crawls
                          = MAX_CONCURRENT_CRAWLS_PER_TENANT
                   /\ create_job(redis, RequestUrl, u, RequestParams, 1, now).success)
    /\ [][\A r \in JobIds, u \in Tenants :
            (pc'[r] # pc[r] /\ tenant'[r] # u) =>
                /\ redis'.active[u] = redis.active[u]
                /\ redis'.active_exp[u] = redis.active_exp[u]
                /\ redis'.hourly[u] = redis.hourly[u]
                /\ redis'.hourly_exp[u] = redis.hourly_exp[u]]_vars

\* Tenant T holds MAX_CONCURRENT_CRAWLS_PER_TENANT active jobs and a request
\* of tenant U has been admitted.
C9_Witness ==
    /\ ActiveCount("T") = MAX_CONCURRENT_CRAWLS_PER_TENANT
    /\ \E r \in JobIds :
          tenant[r] = "U" /\ pc[r] = "scheduled" /\ r \in redis.active["U"]

\* C10: decrement_active_crawls(tenant, job_id) called twice, or for an id
\* that is not in the set, leaves the store as one call does, and removes no
\* other job id; the second release a runner issues changes nothing.
C10_ReleaseIdempotent ==
    /\ [](\A t \in Tenants, j \in JobIds :
            LET once == decrement_active_crawls(redis, t, j)
            IN  /\ decrement_active_crawls(once, t, j) = once
                /\ \A u \in Tenants :
                      once.active[u] = IF u = t THEN redis.active[u] \ {j}
                                       ELSE redis.active[u]
                /\ j \notin redis.active[t] => once = redis
                /\ once.job = redis.job /\ once.hourly = redis.hourly)
    /\ [][\A r \in JobIds :
            (pc[r] = "upd_srem" /\ pc'[r] = "upd_set" /\ releases[r] >= 1) =>
                redis' = redis]_vars

\* A runner has released its job twice (the write after the first release
\* raised, and the except handler released again) while another job of the
\* tenant is in the set.
C10_Witness ==
    \E r \in JobIds, k \in JobIds :
        /\ releases[r] = 2 /\ k # r
        /\ k \in redis.active[tenant[r]]

\* C11: when a store call fails while a request is being admitted, the
\* request is denied and nothing of it is in the store: no job record, no
\* entry in the active set, no increment of the hourly counter (the failing
\* call is not one that follows r.incr), and no runner is started later.
C11_FailClosed ==
    [][\A r \in JobIds :
         /\ (pc'[r] = "http_error" /\ pc[r] # "http_error") =>
                /\ redis.job[r] = Nil
                /\ \A t \in Tenants : r \notin redis.active[t]
                /\ pc[r] \notin {"ttl", "expire_hourly"}
         /\ pc[r] = "http_error" => pc'[r] = "http_error"]_vars

\* C12: a runner that has ended, by returning or by an exception that left
\* it, leaves its job record in a terminal status, and in status failed when
\* an exception ended it; the record is never left queued or running.
C12_EndedIsTerminal ==
    \A r \in JobIds :
        /\ RunnerEnded(r) => StoredStatus(r) \in TerminalStatuses
        /\ pc[r] = "task_error" => StoredStatus(r) = "failed"

\* The inputs of create_job the round trip is tried with.
RoundTripUrls ==
    {RequestUrl, Url(<<"sitemap", ".xml">>, <<"v">>, <<>>),
     Url(<<"notes", ".txt">>, <<>>, <<"top">>)}
RoundTripParams == {Nil, Some({}), Some({<<"max_depth", 1>>}), RequestParams}

C20_StartedAtSetOnce ==
    [][\A j \in CallIds :
         (redis.job[j] # Nil /\ redis'.job[j] # Nil) =>
             LET before == get_job(redis, j)[1]
                 after == get_job(redis', j)[1]
             IN  /\ before.started_at # Nil =>
                        after.started_at = before.started_at
                 /\ (before.started_at = Nil /\ after.started_at # Nil) =>
                        (after.status = "running"
                             /\ after.started_at = Some(now))
                 /\ after.status = "running" => after.started_at # Nil]_vars

\* A record that was started in an earlier hour has been written again in
\* this hour by an update to running.
C20_Witness ==
    \E j \in CallIds :
        /\ get_job(redis, j) # Nil
        /\ get_job(redis, j)[1].status = "running"
        /\ get_job(redis, j)[1].started_at # Nil
        /\ get_job(redis, j)[1].started_at[1] < now
        /\ redis.job_exp[j] = now + JOB_EXPIRY_HOURS

\* The URLs handed to the crawler so far, and how often page p was among
\* them.
Fetched == UNION {fetch_log[i] : i \in DOMAIN fetch_log}
FetchCount(p) ==
    Cardinality({x \in (DOMAIN fetch_log) \X Fetched :
                     x[2] \in fetch_log[x[1]] /\ PageOf(x[2]) = p})
\* The pages at distance at most k from the start URLs, along the links of
\* pages that answer.
RECURSIVE Within(_)
Within(k) ==
    IF k = 0 THEN {PageOf(u) : u \in crawl.start_urls}
    ELSE LET W == Within(k - 1)
         IN  W \cup UNION {world.links[p] : p \in W \cap world.up}

\* C13: within one run of crawl_recursive_internal_links, on any link graph,
\* no page is handed to the crawler more than once under any of its URLs,
\* and when a round is over every URL of its batch is in visited, whether
\* its fetch succeeded or failed.
C13_FetchedOnce ==
    /\ \A p \in Pages : FetchCount(p) <= 1
    /\ crawl.pos \in {"loop", "returned"} =>
           \A u \in Fetched : PageOf(u) \in crawl.visited

\* The run is over; a page whose fetch failed was linked again by a page
\* fetched in a later round, and rounds were left to fetch it again.
C13_Witness ==
    /\ crawl.pos = "returned"
    /\ \E i \in DOMAIN fetch_log, j \in DOMAIN fetch_log :
          /\ i < j /\ j < crawl.max_depth
          /\ \E p \in fetch_log[i], q \in fetch_log[j] :
                /\ ~fetch_ok(world, p) /\ fetch_ok(world, q)
                /\ p \in internal_links(world, q)

\* C14: crawl_recursive_internal_links with max_depth = d hands no page to
\* the crawler whose distance from the start URLs is more than d.
C14_DepthBound ==
    \A u \in Fetched : PageOf(u) \in Within(crawl.max_depth)

\* The run is over and max_depth kept it from a page that its links reach.
C14_Witness ==
    /\ crawl.pos = "returned"
    /\ crawl.max_depth >= 1
    /\ \E p \in Within(NumPages) : p \notin Within(crawl.max_depth)
    /\ Fetched # {}

\* C15: when crawl_recursive_internal_links with max_depth = d returns,
\* every page at distance at most d from the start URLs (the start URLs are
\* at distance 0) has been fetched exactly once.
C15_FetchesAllWithinDepth ==
    crawl.pos = "returned" =>
        \A p \in Within(crawl.max_depth) : FetchCount(p) = 1

\* The job of the runner that is followed, as get_job returns it.
RunRecord == get_job(redis, RunJob)[1]
\* The job's URL takes the sitemap branch.
SitemapJob == is_sitemap(run.url) /\ ~is_txt(run.url)

\* C16: for a job that takes the sitemap strategy, every URL handed to the
\* crawler is one the sitemap lists, whatever max_depth is: links found on
\* the fetched pages are not followed.
C16_SitemapNoExpansion ==
    SitemapJob => Fetched \subseteq parse_sitemap(world, run.url)

\* A sitemap job with max_depth > 0 is completed; a page it fetched links to
\* a page the sitemap does not list, and that page was not fetched.
C16_Witness ==
    /\ SitemapJob /\ run.max_depth > 0
    /\ pc[RunJob] = "done" /\ RunRecord.status = "completed"
    /\ \E u \in Fetched, q \in Pages :
          /\ fetch_ok(world, u)
          /\ q \in internal_links(world, u)
          /\ q \notin parse_sitemap(world, run.url)
          /\ q \notin Fetched

\* C17: a job is completed only if its crawl function returned at least one
\* result; a job whose crawl function returned no result ends failed with
\* the error "No content found".
C17_EmptyCrawlFails ==
    /\ StoredStatus(RunJob) = "completed" =>
           (crawl.pos = "returned" /\ Len(crawl.results_all) >= 1)
    /\ (pc[RunJob] = "done" /\ crawl.pos = "returned"
            /\ crawl.results_all = <<>>) =>
           /\ RunRecord.status = "failed"
           /\ RunRecord.error = Some("No content found")

\* The only start URL of a recursive crawl failed to fetch, and the job has
\* ended failed with "No content found".
C17_Witness ==
    /\ pc[RunJob] = "done"
    /\ crawl.fn = "crawl_recursive_internal_links"
    /\ Fetched = {normalize_url(run.url)}
    /\ ~fetch_ok(world, run.url)
    /\ crawl.results_all = <<>>
    /\ RunRecord.status = "failed"
    /\ RunRecord.error = Some("No content found")

\* The crawl function each strategy runs.
StrategyFns(strategy) ==
    IF strategy = "text_file" THEN {"crawl_markdown_file"}
    ELSE IF strategy = "sitemap" THEN {"parse_sitemap", "crawl_batch"}
    ELSE {"crawl_recursive_internal_links"}

\* C18: the runner invokes at most one strategy, and exactly one once it is
\* past the choice; a URL that ends in ".txt" takes the single-file
\* strategy (also when its path contains "sitemap"), any other URL that
\* ends in "sitemap.xml" or whose path contains "sitemap" takes the sitemap
\* strategy, and every other URL the recursive crawl.
C18_StrategyByShape ==
    /\ Len(run.invoked) <= 1
    /\ (crawl.fn # "none" \/ StoredStatus(RunJob) = "completed") =>
           Len(run.invoked) = 1
    /\ run.invoked # <<>> =>
           /\ crawl.fn \in StrategyFns(run.invoked[1])
           /\ endswith(UrlString(run.url), <<".txt">>) =>
                  run.invoked[1] = "text_file"
           /\ (/\ ~endswith(UrlString(run.url), <<".txt">>)
               /\ \/ endswith(UrlString(run.url), <<"sitemap", ".xml">>)
                  \/ contains(run.url.path, "sitemap")) =>
                  run.invoked[1] = "sitemap"
           /\ (/\ ~endswith(UrlString(run.url), <<".txt">>)
               /\ ~endswith(UrlString(run.url), <<"sitemap", ".xml">>)
               /\ ~contains(run.url.path, "sitemap")) =>
                  run.invoked[1] = "webpage"

\* A job whose URL has "sitemap" in its path and ends in ".txt" has been
\* completed by the single-file strategy.
C18_Witness ==
    /\ contains(run.url.path, "sitemap")
    /\ endswith(UrlString(run.url), <<".txt">>)
    /\ run.invoked = <<"text_file">>
    /\ crawl.fn = "crawl_markdown_file"
    /\ pc[RunJob] = "done" /\ RunRecord.status = "completed"

\* C21: update_job sets completed_at the first time the status becomes
\* completed or failed (a record in a terminal status has it), and no later
\* update_job call, one with a terminal status included, changes it.
C21_CompletedAtSetOnce ==
    [][\A j \in CallIds :
         (redis.job[j] # Nil /\ redis'.job[j] # Nil) =>
             LET before == get_job(redis, j)[1]
                 after == get_job(redis', j)[1]
             IN  /\ before.completed_at # Nil =>
                        after.completed_at = before.completed_at
                 /\ (before.completed_at = Nil /\ after.completed_at # Nil) =>
                        (after.status \in TerminalStatuses
                             /\ after.completed_at = Some(now))
                 /\ after.status \in TerminalStatuses =>
                        after.completed_at # Nil]_vars

\* C22: the hourly counter gets its expiry from the admission that created
\* it: once an increment_rate_counters call has completed the counter
\* carries an expiry, and an admission that finds the counter with an
\* expiry increments it without issuing r.expire on it again (the window is
\* neither reset nor extended).
C22_HourlyExpirySetOnce ==
    /\ [](\A r \in JobIds :
            pc[r] = "scheduled" =>
                /\ redis.hourly[tenant[r]] # Nil
                /\ redis.hourly_exp[tenant[r]] # NoExpiry)
    /\ [][\A r \in JobIds :
            (pc[r] = "expire_hourly" /\ pc'[r] = "scheduled") =>
                redis.hourly_exp[tenant[r]] = NoExpiry]_vars

HandlerPcs == {"idle"} \cup HandlerStorePcs \cup {"rejected", "http_error"}

\* C23: the request returns (and hands the runner to the background) before
\* the crawl starts: the runner's first step finds the job record stored
\* with status queued, never started, and the job id in the tenant's active
\* set; no record is past queued while its request is still being handled.
C23_QueuedBeforeRunner ==
    /\ [](\A r \in JobIds :
            pc[r] \in HandlerPcs =>
                StoredStatus(r) \in {"none", "queued"})
    /\ [][\A r \in JobIds :
            /\ (pc[r] = "scheduled" /\ pc'[r] # "scheduled") =>
                   /\ StoredStatus(r) = "queued"
                   /\ get_job(redis, r)[1].started_at = Nil
                   /\ r \in redis.active[tenant[r]]
            /\ (pc[r] \in HandlerPcs /\ pc'[r] \notin HandlerPcs) =>
                   pc'[r] = "scheduled"]_vars

\* A runner has made its first update (the record reads running) while a
\* later request of the same tenant is still inside create_job.
C23_Witness ==
    \E r \in JobIds, q \in JobIds :
        /\ pc[r] = "strategy" /\ StoredStatus(r) = "running"
        /\ tenant[q] = tenant[r] /\ pc[q] \in HandlerStorePcs

\* C24: every write of a job record that succeeds (create_job, and
\* update_job of a record that exists) leaves the record with the full
\* retention JOB_EXPIRY_HOURS; get_job and list_jobs leave every expiry as
\* it is; and an expiry changes in no other way (but by falling due).
C24_RetentionResetOnWrite ==
    [][/\ \A j \in CallIds, s \in Statuses :
            (CallUpdate(j, s) /\ redis.job[j] # Nil) =>
                /\ redis'.job[j] # Nil
                /\ redis'.job_exp[j] - now' = JOB_EXPIRY_HOURS
       /\ \A t \in Tenants, j \in CallIds :
            (CallCreate(t) /\ redis.job[j] = Nil /\ redis'.job[j] # Nil) =>
                redis'.job_exp[j] - now' = JOB_EXPIRY_HOURS
       /\ \A j \in CallIds, t \in {Nil} \cup {Some(u) : u \in Tenants} :
            (CallGet(j) \/ CallList(t)) => redis'.job_exp = redis.job_exp
       /\ \A j \in CallIds :
            redis'.job_exp[j] # redis.job_exp[j] =>
                \/ redis'.job_exp[j] - now' = JOB_EXPIRY_HOURS
                \/ redis'.job[j] = Nil /\ Expired(redis.job_exp[j], now')]_vars

\* A record created at hour 0 was written again in a later hour, and
\* carries the full retention counted from that hour.
C24_Witness ==
    \E j \in CallIds :
        /\ added_at[j] = Some(0) /\ now > 0
        /\ redis.job[j] # Nil
        /\ redis.job_exp[j] = now + JOB_EXPIRY_HOURS

\* The keyword arguments update_job is tried with.
AnyUpdates ==
    {Updates(st, res, err) :
        st \in {Nil} \cup {Some(s) : s \in Statuses},
        res \in {Nil, Some("summary")},
        err \in {Nil, Some("exception")}}

\* C25: update_job for a job id that has no stored record (an id that was
\* never given out, or one whose record has expired) returns False and
\* leaves the store as it is: every job record, every active set and every
\* hourly counter, with their expiries.
C25_UpdateUnknownId ==
    /\ [](\A j \in JobIds, updates \in AnyUpdates :
            GET_job(redis, j) = Nil =>
                update_job(redis, j, updates, now) = [ok |-> FALSE, R |-> redis])
    /\ [][\A j \in CallIds, s \in Statuses :
            (CallUpdate(j, s) /\ redis.job[j] = Nil) => redis' = redis]_vars

\* The record of a job has expired while its id is still in the tenant's
\* active set, next to a job whose record exists.
C25_Witness ==
    \E j \in CallIds, k \in CallIds :
        /\ added_at[j] # Nil /\ redis.job[j] = Nil
        /\ j \in redis.active[tenant[j]]
        /\ redis.job[k] # Nil

\* The URLs a returned list of results holds.
ResultUrls == {crawl.results_all[i] : i \in DOMAIN crawl.results_all}

\* C27: a fetch that fails does not end a batch: when crawl_batch or
\* crawl_recursive_internal_links returns, its list holds one result for
\* every URL handed to the crawler whose fetch succeeded with content, and
\* none for a URL whose fetch failed, whatever set of pages fails; when
\* every start URL fails the list is empty.
C27_FailureTolerance ==
    /\ ResultUrls \subseteq {u \in Fetched : fetch_ok(world, u)}
    /\ crawl.pos = "returned" =>
           /\ ResultUrls = {u \in Fetched : fetch_ok(world, u)}
           /\ Len(crawl.results_all) = Cardinality(ResultUrls)
           /\ (\A u \in crawl.start_urls : ~fetch_ok(world, u)) =>
                  crawl.results_all = <<>>

\* A run has returned results although a URL of one of its batches failed
\* in the same batch as a URL that succeeded.
C27_Witness ==
    /\ crawl.pos = "returned"
    /\ \E i \in DOMAIN fetch_log :
          \E u \in fetch_log[i], v \in fetch_log[i] :
              /\ fetch_ok(world, u) /\ ~fetch_ok(world, v)
              /\ u \in ResultUrls

\* C28: one run of crawl_recursive_internal_links takes the levels in
\* order: batch n + 1 holds only URLs linked from pages of batch n, and a
\* batch is handed to the crawler only when no result of an earlier batch is
\* outstanding and every URL of the earlier batches is in visited.
C28_LevelsInOrder ==
    /\ [](/\ Len(fetch_log) <= crawl.depth + 1
          /\ \A i \in DOMAIN fetch_log :
                i > 1 =>
                    fetch_log[i] \subseteq
                        UNION {{normalize_url(h) : h \in internal_links(world, u)} :
                                  u \in {v \in fetch_log[i - 1] : fetch_ok(world, v)}})
    /\ [][fetch_log' # fetch_log =>
            /\ crawl.pending = {} /\ crawl.batch = {}
            /\ Len(fetch_log') = crawl.depth + 1
            /\ \A u \in Fetched : normalize_url(u) \in crawl.visited]_vars

\* The second level has been handed to the crawler after a first level of
\* two URLs, one of which failed.
C28_Witness ==
    /\ Len(fetch_log) >= 2
    /\ crawl.pos = "await"
    /\ \E u \in fetch_log[1], v \in fetch_log[1] :
          fetch_ok(world, u) /\ ~fetch_ok(world, v)

\* The site of two pages that link to each other (and a page nobody links).
TwoPageCycle ==
    [links |-> [p \in Pages |->
                   IF p = Page(1) THEN {Page(2)}
                   ELSE IF p = Page(2) THEN {Page(1)} ELSE {}],
     up |-> Pages, sitemap |-> {}]

\* C29: crawl_recursive_internal_links returns on every link graph, cyclic
\* or not: it hands at most max_depth batches to the crawler, each batch is
\* new (disjoint from what was fetched before), and it returns before
\* max_depth rounds only at a round in which every URL of the frontier is
\* visited.  On the cycle a <-> b with start URL a and max_depth = 5 the
\* batches are {a}, then {b}, and then it returns.
C29_Terminates ==
    /\ <>(crawl.pos = "returned")
    /\ [](/\ crawl.depth <= crawl.max_depth
          /\ Len(fetch_log) <= crawl.max_depth
          /\ \A i \in DOMAIN fetch_log, j \in DOMAIN fetch_log :
                i # j => fetch_log[i] \cap fetch_log[j] = {}
          /\ (crawl.pos = "returned" /\ crawl.depth < crawl.max_depth) =>
                 crawl.current_urls \subseteq crawl.visited
          /\ (/\ world = TwoPageCycle
              /\ crawl.start_urls = {Page(1)}
              /\ crawl.max_depth = 5
              /\ crawl.pos = "returned") =>
                 /\ fetch_log = <<{Page(1)}, {Page(2)}>>
                 /\ crawl.results_all = <<Page(1), Page(2)>>)

\* The run on the two-page cycle with max_depth = 5 has returned.
C29_Witness ==
    /\ world = TwoPageCycle
    /\ crawl.start_urls = {Page(1)}
    /\ crawl.max_depth = 5
    /\ crawl.pos = "returned"
    /\ Fetched = {Page(1), Page(2)}

\* The jobs of tenant t whose stored status is queued or running.
UnfinishedJobs(t) ==
    {j \in JobIds :
        /\ StoredStatus(j) \in Unfinished
        /\ get_job(redis, j)[1].tenant_id = t}

\* C30: for every tenant, the jobs whose stored status is queued or running
\* are never more than MAX_CONCURRENT_CRAWLS_PER_TENANT, also when the
\* tenant's active set expires while some of them are unfinished.
C30_UnfinishedWithinLimit ==
    \A t \in Tenants :
        Cardinality(UnfinishedJobs(t)) <= MAX_CONCURRENT_CRAWLS_PER_TENANT

====
